---------------------------- MODULE Spec2Model ----------------------------
(***************************************************************************)
(* Model of app.py, the Streamlit dashboard of projected residential       *)
(* electricity demand in Turkey: the province-name normaliser, the         *)
(* cleaning of the scenario and historical tables, and the script that     *)
(* Streamlit executes top to bottom on every (re)run of a session.         *)
(*                                                                         *)
(* A Python str is a sequence of characters.  An ASCII character is        *)
(* written as itself ("a", " "); any other character by its code point     *)
(* ("U+0130" is LATIN CAPITAL LETTER I WITH DOT ABOVE).                    *)
(***************************************************************************)
EXTENDS Integers, Sequences, FiniteSets, TLC

VARIABLES
    nm_name,    \* normaliser harness: the string normalize_province is applied to
    nm_prev,    \* normaliser harness: the string before the last application
    nm_calls,   \* normaliser harness: number of applications made
    nm_other,   \* normaliser harness: another spelling of the same name
    nm_keys,    \* normaliser harness: the keys of nm_name and nm_other
    ld_kind,    \* load harness: "ssp" (a scenario file) or "hist" (the historical file)
    ld_raw,     \* load harness: the table as read from the file
    ld_out,     \* load harness: what cleaning it gave: [exc, df]
    ld_hits,    \* load harness: the rows of the last lookup by key
    files,      \* session: the five scenario files and the historical file, as read
    ssp_files,  \* session: ssp_files, the scenario tables in memory
    hist_df,    \* session: hist_df, the historical table in memory
    session_state,        \* session: st.session_state (a key is absent until set)
    last_active_drawing,  \* session: the map widget's last clicked feature, if any
    ssp_selector,         \* session: the radio widget's picked option, if any
    pc,         \* session: "run" (a script run is due) or "idle" (awaiting input)
    view        \* session: what the last script run put on the page

normVars == <<nm_name, nm_prev, nm_calls, nm_other, nm_keys>>
loadVars == <<ld_kind, ld_raw, ld_out, ld_hits>>
appVars == <<files, ssp_files, hist_df, session_state, last_active_drawing,
             ssp_selector, pc, view>>
vars == <<normVars, loadVars, appVars>>

(***************************************************************************)
(* Bounds of the model.                                                    *)
(***************************************************************************)
MaxLen == 2     \* longest input string of the normaliser harness
MaxWord == 1    \* longest enumerated base word of the spelling harness
MaxPad == 1     \* most whitespace characters added on one side of a spelling

MaxRows == 2    \* most rows of the file of the load harness

\* pandas NaN, the missing value: in a numeric cell (demand values are >= 0)
\* and in a text cell (no character is called "NaN")
NaN == 0 - 1
NaNText == <<"NaN">>

\* the harnesses that a specification does not use stay as they are here
NormIdle ==
    /\ nm_name = <<>>
    /\ nm_prev = <<>>
    /\ nm_calls = 0
    /\ nm_other = <<>>
    /\ nm_keys = <<>>

LoadIdle ==
    /\ ld_kind = "ssp"
    /\ ld_raw = <<>>
    /\ ld_out = [exc |-> "pending", df |-> <<>>]
    /\ ld_hits = <<>>

\* no file, no table, no session: the dashboard is not running
NoTables == [t \in {} |-> <<>>]

\* a pandas object holds its values: the sequence, or the function, written
\* out in full
Seq1(f) == f \o <<>>
Fn1(f) == f @@ NoTables
NoView == [stage |-> "off"]

AppIdle ==
    /\ files = NoTables
    /\ ssp_files = NoTables
    /\ hist_df = <<>>
    /\ session_state = NoTables
    /\ last_active_drawing = <<>>
    /\ ssp_selector = <<>>
    /\ pc = "off"
    /\ view = NoView

(***************************************************************************)
(* Unicode data used by str.strip, str.casefold, unicodedata.normalize     *)
(* and unicodedata.combining, for the characters of the model.             *)
(***************************************************************************)
AsciiCase ==
    { <<"A","a">>, <<"B","b">>, <<"C","c">>, <<"E","e">>, <<"G","g">>,
      <<"I","i">>, <<"K","k">>, <<"L","l">>, <<"N","n">>, <<"O","o">>,
      <<"M","m">>, <<"R","r">>, <<"S","s">>, <<"T","t">>, <<"U","u">>,
      <<"V","v">>, <<"Z","z">> }

\* str.isspace: the characters str.strip() removes at both ends
IsSpace(c) == c \in {" ", "U+00A0"}

\* str.casefold of one character (full case folding: U+0130 folds to "i" + U+0307)
CaseFoldChar(c) ==
    IF \E p \in AsciiCase : p[1] = c
    THEN << (CHOOSE p \in AsciiCase : p[1] = c)[2] >>
    ELSE CASE c = "U+0130" -> <<"i", "U+0307">>  \* I with dot above
           [] c = "U+00C7" -> <<"U+00E7">>       \* C with cedilla
           [] c = "U+011E" -> <<"U+011F">>       \* G with breve
           [] c = "U+00D6" -> <<"U+00F6">>       \* O with diaeresis
           [] c = "U+015E" -> <<"U+015F">>       \* S with cedilla
           [] c = "U+00DC" -> <<"U+00FC">>       \* U with diaeresis
           [] c = "U+00C2" -> <<"U+00E2">>       \* A with circumflex
           [] OTHER -> <<c>>

\* unicodedata.normalize('NFKD', c) of one character
NFKDChar(c) ==
    CASE c = "U+0130" -> <<"I", "U+0307">>
      [] c = "U+00C7" -> <<"C", "U+0327">>
      [] c = "U+00E7" -> <<"c", "U+0327">>
      [] c = "U+011E" -> <<"G", "U+0306">>
      [] c = "U+011F" -> <<"g", "U+0306">>
      [] c = "U+00D6" -> <<"O", "U+0308">>
      [] c = "U+00F6" -> <<"o", "U+0308">>
      [] c = "U+015E" -> <<"S", "U+0327">>
      [] c = "U+015F" -> <<"s", "U+0327">>
      [] c = "U+00DC" -> <<"U", "U+0308">>
      [] c = "U+00FC" -> <<"u", "U+0308">>
      [] c = "U+00C2" -> <<"A", "U+0302">>
      [] c = "U+00E2" -> <<"a", "U+0302">>
      [] c = "U+00A8" -> <<" ", "U+0308">>       \* DIAERESIS (spacing)
      [] c = "U+2116" -> <<"N", "o">>            \* NUMERO SIGN
      [] c = "U+00A0" -> <<" ">>                 \* NO-BREAK SPACE
      [] OTHER -> <<c>>                          \* U+0131 has no decomposition

\* unicodedata.combining(c) # 0
Combining(c) == c \in {"U+0302", "U+0306", "U+0307", "U+0308", "U+0327"}

(***************************************************************************)
(* normalize_province, step by step as the code computes it.               *)
(***************************************************************************)
RECURSIVE lstrip(_)
lstrip(s) == IF s # <<>> /\ IsSpace(Head(s)) THEN lstrip(Tail(s)) ELSE s

RECURSIVE rstrip(_)
rstrip(s) ==
    IF s # <<>> /\ IsSpace(s[Len(s)]) THEN rstrip(SubSeq(s, 1, Len(s) - 1)) ELSE s

strip(s) == rstrip(lstrip(s))

casefold(s) ==
    LET cf[i \in 0..Len(s)] ==
            IF i = 0 THEN <<>> ELSE cf[i - 1] \o CaseFoldChar(s[i])
    IN  cf[Len(s)]

\* str.replace(old, new) for one-character old and new
replace(s, old, new) ==
    Seq1([i \in 1..Len(s) |-> IF s[i] = old THEN new ELSE s[i]])

NFKD(s) ==
    LET d[i \in 0..Len(s)] ==
            IF i = 0 THEN <<>> ELSE d[i - 1] \o NFKDChar(s[i])
    IN  d[Len(s)]

NotCombining(c) == ~Combining(c)

StripMarks(s) == SelectSeq(s, NotCombining)

\* the chain of .replace calls without .replace('U+0131', 'i')
TurkishToAsciiNoDotlessI(s) ==
    replace(replace(replace(replace(replace(replace(s,
        "U+00E7", "c"), "U+011F", "g"), "U+00F6", "o"),
        "U+015F", "s"), "U+00FC", "u"), "U+00E2", "a")

TurkishToAscii(s) ==
    replace(replace(replace(replace(replace(replace(replace(s,
        "U+00E7", "c"), "U+011F", "g"), "U+0131", "i"), "U+00F6", "o"),
        "U+015F", "s"), "U+00FC", "u"), "U+00E2", "a")

normalize_province(name) == StripMarks(NFKD(TurkishToAscii(casefold(strip(name)))))

(***************************************************************************)
(* Harness 1: normalize_province applied to a string, then to its result.  *)
(***************************************************************************)
NormChars == {" ", "a", "I", "U+0130", "U+0131", "U+00E7", "U+00D6",
              "U+0307", "U+00A8", "U+2116"}

StringsUpTo(A, n) == UNION { [1..k -> A] : k \in 0..n }

InitNorm ==
    /\ nm_name \in StringsUpTo(NormChars, MaxLen)
    /\ nm_prev = <<>>
    /\ nm_calls = 0
    /\ nm_other = <<>>
    /\ nm_keys = <<>>
    /\ LoadIdle
    /\ AppIdle

Normalize ==
    /\ nm_calls = 0
    /\ nm_prev' = nm_name
    /\ nm_name' = normalize_province(nm_name)
    /\ nm_calls' = 1
    /\ UNCHANGED <<nm_other, nm_keys, loadVars, appVars>>

NormalizeAgain ==
    /\ nm_calls = 1
    /\ nm_prev' = nm_name
    /\ nm_name' = normalize_province(nm_name)
    /\ nm_calls' = 2
    /\ UNCHANGED <<nm_other, nm_keys, loadVars, appVars>>

NextNorm == Normalize \/ NormalizeAgain

SpecNorm == InitNorm /\ [][NextNorm]_vars

\* C1: normalize_province is idempotent: applied to its own result it
\* returns that result unchanged, for every input string.
C1_Idempotent == nm_calls = 2 => nm_name = nm_prev

(***************************************************************************)
(* Harness 2: spellings of one province name.  nm_name is the name in      *)
(* plain lower-case ASCII; nm_other is any respelling of it, each character *)
(* taken from that character's spelling class (letter case, Turkish dotted *)
(* and dotless I, Turkish diacritic or its ASCII letter), padded with      *)
(* whitespace; Compare normalises both.                                    *)
(***************************************************************************)
SpellingClasses ==
    { {"i", "I", "U+0131", "U+0130"}, {"c", "C", "U+00E7", "U+00C7"},
      {"g", "G", "U+011F", "U+011E"}, {"o", "O", "U+00F6", "U+00D6"},
      {"s", "S", "U+015F", "U+015E"}, {"u", "U", "U+00FC", "U+00DC"},
      {"a", "A", "U+00E2", "U+00C2"}, {"n", "N"}, {"t", "T"}, {"b", "B"},
      {"l", "L"}, {"k", "K"}, {"e", "E"} }

SpellingsOf(c) == UNION { cls \in SpellingClasses : c \in cls }

BaseLetters == {"a", "c", "g", "i", "o", "s", "u", "n"}

istanbul == <<"i", "s", "t", "a", "n", "b", "u", "l">>
canakkale == <<"c", "a", "n", "a", "k", "k", "a", "l", "e">>

BaseWords == StringsUpTo(BaseLetters, MaxWord) \cup {istanbul}

\* the spellings of Canakkale that the specification names, and two more
CanakkaleSpellings ==
    { <<"U+00C7", "a", "n", "a", "k", "k", "a", "l", "e">>,
      canakkale,
      <<" ", "U+00C7", "A", "N", "A", "K", "K", "A", "L", "E", " ">>,
      <<"C", "U+00C2", "N", "A", "K", "K", "A", "L", "E">>,
      <<"U+00E7", "a", "n", "U+00E2", "k", "K", "a", "l", "E", " ">> }

RECURSIVE Spellings(_)
Spellings(w) ==
    IF w = <<>> THEN {<<>>}
    ELSE { <<c>> \o t : c \in SpellingsOf(Head(w)), t \in Spellings(Tail(w)) }

Spaces(n) == [i \in 1..n |-> " "]

Padded(w) == { Spaces(l) \o w \o Spaces(r) : l \in 0..MaxPad, r \in 0..MaxPad }

InitVariants ==
    /\ \/ /\ nm_name \in BaseWords
          /\ nm_other \in UNION { Padded(w) : w \in Spellings(nm_name) }
       \/ /\ nm_name = canakkale
          /\ nm_other \in CanakkaleSpellings
    /\ nm_keys = <<>>
    /\ nm_prev = <<>>
    /\ nm_calls = 0
    /\ LoadIdle
    /\ AppIdle

Compare ==
    /\ nm_keys = <<>>
    /\ nm_keys' = <<normalize_province(nm_name), normalize_province(nm_other)>>
    /\ UNCHANGED <<nm_name, nm_prev, nm_calls, nm_other, loadVars, appVars>>

NextVariants == Compare

SpecVariants == InitVariants /\ [][NextVariants]_vars

\* C2: spellings of one province name that differ only in leading/trailing
\* whitespace, letter case (Turkish I forms included) and Turkish diacritics
\* versus their ASCII letters all normalise to one key.
C2_VariantsConverge == nm_keys # <<>> => nm_keys[1] = nm_keys[2]

C2_Witness ==
    /\ nm_keys # <<>>
    /\ \/ nm_other = <<"U+0130", "S", "T", "A", "N", "B", "U", "L">>
       \/ nm_other = <<" ", "U+00C7", "A", "N", "A", "K", "K", "A", "L", "E", " ">>
    /\ nm_keys[2] \in {istanbul, canakkale}

(***************************************************************************)
(* Tables.  A DataFrame is the sequence of its rows; a row is a function   *)
(* from column labels to cell values.  The province-name column and        *)
(* 'Normalized' hold text, every other column a number.                    *)
(***************************************************************************)
TextCols == {"Provinces", "Province", "Normalized"}

isna(col, v) == IF col \in TextCols THEN v = NaNText ELSE v = NaN

HasNaN(row) == \E col \in DOMAIN row : isna(col, row[col])

\* the rows t[i] with Keep(i), in order
Rows(t, keep) ==
    LET f[i \in 0..Len(t)] ==
            IF i = 0 THEN <<>>
            ELSE IF i \in keep THEN Append(f[i - 1], t[i]) ELSE f[i - 1]
    IN  f[Len(t)]

\* df[col].str.strip(): a missing name stays missing
str_strip(df, col) ==
    Seq1([i \in 1..Len(df) |->
        [df[i] EXCEPT ![col] = IF @ = NaNText THEN @ ELSE strip(@)]])

\* df[col].apply(normalize_province) raises on a missing name:
\* a float has no attribute 'strip'
ApplyRaises(df, col) == \E i \in 1..Len(df) : df[i][col] = NaNText

AddNormalized(df, col) ==
    Seq1([i \in 1..Len(df) |->
        df[i] @@ ("Normalized" :> normalize_province(df[i][col]))])

\* DataFrame.drop_duplicates(subset=col): the first row of each value stays
drop_duplicates(df, col) ==
    Rows(df, { i \in 1..Len(df) : \A j \in 1..(i - 1) : df[j][col] # df[i][col] })

\* DataFrame.dropna(): rows with a missing value in any column go
dropna(df) == Rows(df, { i \in 1..Len(df) : ~HasNaN(df[i]) })

\* the cleaning with dropna() before drop_duplicates()
CleanRowsNaFirst(df, col) == drop_duplicates(dropna(df), col)

CleanRows(df, col) == dropna(drop_duplicates(df, col))

\* the cleaning of one table (the body of the loop over ssp_files, and the
\* same statements for hist_df); col is 'Provinces' or 'Province'
Clean(df, col) ==
    LET stripped == str_strip(df, col)
    IN  IF ApplyRaises(stripped, col)
        THEN [exc |-> "AttributeError", df |-> <<>>]
        ELSE [exc |-> "none", df |-> CleanRows(AddNormalized(stripped, col), col)]

\* df.set_index('Normalized').loc[key]: the rows with that key; none is a
\* KeyError, one is a Series, several are a DataFrame
loc(df, key) == Rows(df, { i \in 1..Len(df) : df[i]["Normalized"] = key })

(***************************************************************************)
(* Harness 3: one file is read, cleaned, and looked up by key.             *)
(***************************************************************************)
Izmir == <<"I", "z", "m", "i", "r">>
IzmirDotted == <<"U+0130", "z", "m", "i", "r">>
izmir == <<"i", "z", "m", "i", "r">>

LoadNames == {NaNText, Izmir, <<" ">> \o Izmir, IzmirDotted}
LoadCells == {NaN, 1, 2}

NameCol(kind) == IF kind = "ssp" THEN "Provinces" ELSE "Province"
YearCol(kind) == IF kind = "ssp" THEN "2050" ELSE "2020"

LoadRows(kind) ==
    { (NameCol(kind) :> n) @@ (YearCol(kind) :> v) : n \in LoadNames, v \in LoadCells }

InitLoad ==
    /\ ld_kind \in {"ssp", "hist"}
    /\ ld_raw \in StringsUpTo(LoadRows(ld_kind), MaxRows)
    /\ ld_out = [exc |-> "pending", df |-> <<>>]
    /\ ld_hits = <<>>
    /\ NormIdle
    /\ AppIdle

LoadScenario ==
    /\ ld_kind = "ssp"
    /\ ld_out.exc = "pending"
    /\ ld_out' = Clean(ld_raw, "Provinces")
    /\ UNCHANGED <<ld_kind, ld_raw, ld_hits, normVars, appVars>>

LoadHistorical ==
    /\ ld_kind = "hist"
    /\ ld_out.exc = "pending"
    /\ ld_out' = Clean(ld_raw, "Province")
    /\ UNCHANGED <<ld_kind, ld_raw, ld_hits, normVars, appVars>>

Lookup(key) ==
    /\ ld_out.exc = "none"
    /\ ld_hits = <<>>
    /\ ld_hits' = loc(ld_out.df, key)
    /\ UNCHANGED <<ld_kind, ld_raw, ld_out, normVars, appVars>>

NextLoad ==
    \/ LoadScenario
    \/ LoadHistorical
    \/ Lookup(izmir)

SpecLoad == InitLoad /\ [][NextLoad]_vars

Loaded == ld_out.exc = "none"

\* the file's rows with the name trimmed (a missing name stays missing)
Source == str_strip(ld_raw, NameCol(ld_kind))

\* C4: two distinct raw names of one table that normalise to the same key are
\* reported when the table is loaded, so a loaded table never holds two rows
\* with one Normalized key and a lookup by key never gives more than one row.
C4_CollisionReported ==
    /\ Loaded =>
          \A i, j \in 1..Len(ld_out.df) :
              ld_out.df[i]["Normalized"] = ld_out.df[j]["Normalized"] => i = j
    /\ Len(ld_hits) <= 1

\* C5: loading never raises on a bad row: every row with a missing value,
\* the province name included, is dropped and the other rows are loaded.
C5_LoadNeverRaises ==
    ld_out.exc # "pending" =>
        /\ ld_out.exc = "none"
        /\ \A i \in 1..Len(Source) :
              (~HasNaN(Source[i])
                 /\ \A j \in 1..(i - 1) :
                       Source[j][NameCol(ld_kind)] # Source[i][NameCol(ld_kind)])
              => \E k \in 1..Len(ld_out.df) :
                     \A col \in DOMAIN Source[i] : ld_out.df[k][col] = Source[i][col]

\* the first row of the file with this trimmed name
FirstOf(n) ==
    Source[CHOOSE i \in 1..Len(Source) :
              /\ Source[i][NameCol(ld_kind)] = n
              /\ \A j \in 1..(i - 1) : Source[j][NameCol(ld_kind)] # n]

\* C6: a loaded table holds at most one row per trimmed province name, that
\* row is the first of the name in the file whatever later rows of the name
\* hold, and no row of it has a missing value in any column.
C6_WellFormed ==
    Loaded =>
        /\ \A i, j \in 1..Len(ld_out.df) :
              ld_out.df[i][NameCol(ld_kind)] = ld_out.df[j][NameCol(ld_kind)] => i = j
        /\ \A k \in 1..Len(ld_out.df) :
              /\ \E i \in 1..Len(Source) :
                    Source[i][NameCol(ld_kind)] = ld_out.df[k][NameCol(ld_kind)]
              /\ \A col \in DOMAIN ld_raw[1] :
                    ld_out.df[k][col] = FirstOf(ld_out.df[k][NameCol(ld_kind)])[col]
              /\ ~HasNaN(ld_out.df[k])

\* a loaded table that kept the first row of a name and dropped a later,
\* different row of the same trimmed name
C6_Witness ==
    /\ Loaded
    /\ Len(ld_raw) = 2
    /\ Len(ld_out.df) = 1
    /\ ld_raw[1][NameCol(ld_kind)] = Izmir
    /\ ld_raw[2][NameCol(ld_kind)] = <<" ">> \o Izmir
    /\ ld_raw[1][YearCol(ld_kind)] = 1
    /\ ld_raw[2][YearCol(ld_kind)] = 2
    /\ ld_out.df[1][YearCol(ld_kind)] = 1

(***************************************************************************)
(* The dashboard session.  Streamlit executes app.py from top to bottom    *)
(* on every run: the files are read and cleaned, the session defaults are  *)
(* set, the map is drawn, the two widgets are read (a change of selection  *)
(* ends the run with st.rerun()), and then the two charts are drawn.       *)
(***************************************************************************)
SSPs == <<"SSP1", "SSP2", "SSP3", "SSP4", "SSP5">>     \* list(ssp_files.keys())
SSPSet == { SSPs[i] : i \in 1..Len(SSPs) }
Tables == SSPSet \cup {"hist"}

Threshold == 1000

Ankara == <<"A", "n", "k", "a", "r", "a">>
Van == <<"V", "a", "n">>
Bursa == <<"B", "u", "r", "s", "a">>

\* feature.properties.shapeName of the features of turkey_geo
ShapeNames == {Ankara, IzmirDotted, Van}

\* int(label) for the column labels that are years
IntOf ==
    ("2019" :> 2019) @@ ("2020" :> 2020) @@ ("2023" :> 2023) @@ ("2024" :> 2024)
    @@ ("2025" :> 2025) @@ ("2050" :> 2050)

\* x / 1000 as an exact quotient; NaN / 1000 is NaN
Div1000(v) == IF v = NaN THEN [num |-> NaN, den |-> 1] ELSE [num |-> v, den |-> 1000]

\* df.drop(labels, axis=1, errors='ignore') and Series.drop(labels, errors='ignore')
drop(labels, dropped) == labels \ dropped

\* DataFrame.sum() of one column
ColSum(df, col) ==
    LET f[i \in 0..Len(df)] == IF i = 0 THEN 0 ELSE f[i - 1] + df[i][col]
    IN  f[Len(df)]

Columns(df) == DOMAIN df[1]

\* national without 'Demand' in the dropped labels
NationalNoDemandDrop(tables) ==
    Fn1([s \in SSPSet |->
        Fn1([col \in drop(Columns(tables[s]), {"Provinces", "Normalized"}) |->
            Div1000(ColSum(tables[s], col))])])

\* national: per scenario, the sum of every remaining column, / 1000
National(tables) ==
    Fn1([s \in SSPSet |->
        Fn1([col \in drop(Columns(tables[s]), {"Provinces", "Normalized", "Demand"}) |->
            Div1000(ColSum(tables[s], col))])])

\* a Series re-indexed by index.astype(int) and filtered to index >= from
YearSeries(row, labels, from) ==
    Fn1([y \in { IntOf[l] : l \in { k \in labels : IntOf[k] >= from } } |->
        row[CHOOSE l \in labels : IntOf[l] = y]])

\* hist_national with '2024' left in
HistNationalKeep2024(hist) ==
    LET labels == drop(Columns(hist), {"Province", "Normalized"})
        sums == Fn1([col \in labels |-> Div1000(ColSum(hist, col))])
    IN  YearSeries(sums, labels, 2020)

\* hist_national: sums / 1000, without '2024', from 2020 on
HistNational(hist) ==
    LET labels == drop(Columns(hist), {"Province", "Normalized"})
        sums == Fn1([col \in labels |-> Div1000(ColSum(hist, col))])
    IN  YearSeries(sums, drop(labels, {"2024"}), 2020)

\* prov_hist: the province's historical row without 'Province' and '2024',
\* from 2020 on ('Normalized' is the index, not a label of the row)
ProvHist(row) ==
    YearSeries(row, drop(drop(drop(DOMAIN row, {"Normalized"}), {"Province"}), {"2024"}), 2020)

\* s: the province's row of one scenario, years from 2025 on
ProvSsp(row) ==
    YearSeries(row, drop(drop(DOMAIN row, {"Normalized"}),
                         {"Provinces", "Demand"}), 2025)

\* .loc[norm_name] and what follows it: no row is a KeyError; several rows
\* are a DataFrame whose text column .astype(float) cannot convert
LookupExc(df, key) ==
    IF Len(loc(df, key)) = 0 THEN "KeyError"
    ELSE IF Len(loc(df, key)) > 1 THEN "ValueError" ELSE "none"

\* the first exception of the lookups, in the order hist_df, SSP1 .. SSP5
ProvinceExc(tables, hist, key) ==
    LET excs == <<LookupExc(hist, key)>>
                \o [i \in 1..Len(SSPs) |-> LookupExc(tables[SSPs[i]], key)]
        bad == { i \in 1..Len(excs) : excs[i] # "none" }
    IN  IF bad = {} THEN "none"
        ELSE excs[CHOOSE i \in bad : \A j \in bad : i <= j]

\* prov_df = pd.concat([prov_hist] + ssp_list, axis=1): one column per
\* series over the union of their years, NaN where a series has no entry
ProvDf(tables, hist, key) ==
    LET series == Fn1([c \in {"Historical"} \cup SSPSet |->
                      IF c = "Historical" THEN ProvHist(loc(hist, key)[1])
                      ELSE ProvSsp(loc(tables[c], key)[1])])
        years == UNION { DOMAIN series[c] : c \in DOMAIN series }
    IN  Fn1([c \in DOMAIN series |->
            Fn1([y \in years |->
                IF y \in DOMAIN series[c] THEN series[c][y] ELSE NaN])])

Present(df) == { df[c][y] : c \in DOMAIN df, y \in UNION { DOMAIN df[k] : k \in DOMAIN df } } \ {NaN}

\* prov_df.min().min(): the least present value (NaN when there is none)
MinDemand(df) ==
    IF Present(df) = {} THEN NaN
    ELSE CHOOSE v \in Present(df) : \A w \in Present(df) : v <= w

\* the unit test with >= in place of >
ToTWhAtThreshold(min_demand) == min_demand # NaN /\ min_demand >= Threshold

\* min_demand > 1000 (False for NaN)
ToTWh(min_demand) == min_demand # NaN /\ min_demand > Threshold

\* prov_df_display and y_unit
ProvDisplay(prov_df) ==
    IF ToTWh(MinDemand(prov_df))
    THEN [data |-> Fn1([c \in DOMAIN prov_df |->
                       Fn1([y \in DOMAIN prov_df[c] |-> Div1000(prov_df[c][y])])]),
          y_unit |-> "TWh"]
    ELSE [data |-> prov_df, y_unit |-> "GWh"]

\* the helper column taken from '2025'
AddDemandOf2025(df) ==
    Seq1([i \in 1..Len(df) |-> ("Demand" :> df[i]["2025"]) @@ df[i]])

\* df['Demand'] = df[selected_year]
AddDemand(df) == Seq1([i \in 1..Len(df) |-> ("Demand" :> df[i]["2050"]) @@ df[i]])

\* folium.Choropleth: a feature is filled by the 'Demand' of the row whose
\* 'Provinces' equals its shapeName, and with nan_fill_color when there is none
Choropleth(df) ==
    Fn1([g \in ShapeNames |->
        IF \E i \in 1..Len(df) : df[i]["Provinces"] = g
        THEN df[CHOOSE i \in 1..Len(df) : df[i]["Provinces"] = g]["Demand"]
        ELSE NaN])

\* the map: the choropleth layer and the border layer of style_function
MapOf(df, ss) ==
    [choropleth |-> Choropleth(df),
     highlighted |-> { g \in ShapeNames : g = ss["selected_province"] }]

\* the session defaults with the province's name itself stored as its key
WithDefaultsRawKey(ss) ==
    LET a == ss @@ ("selected_province" :> Ankara)
        b == a @@ ("selected_province_normalized" :> a["selected_province"])
    IN  b @@ ("selected_ssp" :> "SSP1")

\* the session defaults with 'SSP2' as the scenario
WithDefaultsSSP2(ss) ==
    LET a == ss @@ ("selected_province" :> Ankara)
        b == a @@ ("selected_province_normalized" :>
                       normalize_province(a["selected_province"]))
    IN  b @@ ("selected_ssp" :> "SSP2")

\* the session defaults, each set only when its key is absent
WithDefaults(ss) ==
    LET a == ss @@ ("selected_province" :> Ankara)
        b == a @@ ("selected_province_normalized" :>
                       normalize_province(a["selected_province"]))
    IN  b @@ ("selected_ssp" :> "SSP1")

\* the chart block: the national chart is drawn, then the province's rows
\* are looked up and the province chart is drawn
Charts(tables, hist, ss, map) ==
    LET key == ss["selected_province_normalized"]
        national == National(tables)
        nat == [map |-> map,
                national |-> national,
                hist_national |-> HistNational(hist),
                selected_ssp |-> ss["selected_ssp"]]
        exc == ProvinceExc(tables, hist, key)
    IN  IF \E s \in SSPSet : \E col \in DOMAIN national[s] : col \notin DOMAIN IntOf
        THEN \* national.index.astype(int) fails before anything is drawn
             [stage |-> "map", exc |-> "ValueError"] @@ nat
        ELSE IF exc # "none"
        THEN [stage |-> "national", exc |-> exc] @@ nat
        ELSE LET prov_df == ProvDf(tables, hist, key)
                 shown == ProvDisplay(prov_df)
             IN  [stage |-> "charts", exc |-> "none",
                  title |-> ss["selected_province"],
                  prov_df |-> prov_df,
                  prov_df_display |-> shown.data,
                  y_unit |-> shown.y_unit] @@ nat

(***************************************************************************)
(* The files of a session.  Every file holds a row of Ankara, a second row *)
(* of Ankara spelled with a leading blank, a row of Bursa with a missing   *)
(* value and, except in the file missingIn, a row of Izmir.  One cell of   *)
(* the first Ankara row, lowAt, holds lowVal; every other value is above   *)
(* the TWh threshold.                                                      *)
(***************************************************************************)
YearCols(t) == IF t = "hist" THEN {"2019", "2020", "2023", "2024"} ELSE {"2025", "2050"}

NameColOf(t) == IF t = "hist" THEN "Province" ELSE "Provinces"

TableNo(t) == IF t = "hist" THEN 0 ELSE CHOOSE i \in 1..Len(SSPs) : SSPs[i] = t

FileRow(t, name, base, nan) ==
    (NameColOf(t) :> name)
    @@ [y \in YearCols(t) |->
           IF y \in nan THEN NaN ELSE base + 100 * TableNo(t) + (IntOf[y] - 2000)]

MissingIn == {"none", "hist", "SSP3"}

LowCells == { <<"hist", "2019">>, <<"hist", "2020">>, <<"hist", "2024">>,
              <<"SSP4", "2050">> }
LowVals == {Threshold - 1, Threshold, Threshold + 1}

FileOf(t, missingIn, lowAt, lowVal) ==
    LET ankara == FileRow(t, Ankara, 5000, {})
        first == IF lowAt[1] = t THEN [ankara EXCEPT ![lowAt[2]] = lowVal] ELSE ankara
        head == << first,
                   FileRow(t, <<" ">> \o Ankara, 10, {}),
                   FileRow(t, Bursa, 2000, {CHOOSE y \in YearCols(t) : TRUE}) >>
    IN  IF t = missingIn THEN head ELSE Append(head, FileRow(t, Izmir, 3000, {}))

\* the files of the session specification: the low cell at the threshold
FileChoices ==
    { c \in MissingIn \X LowCells \X LowVals :
        c[2] = <<"hist", "2020">> /\ c[3] = Threshold }

Init ==
    /\ \E c \in FileChoices :
          files = [t \in Tables |-> FileOf(t, c[1], c[2], c[3])]
    /\ ssp_files = NoTables
    /\ hist_df = <<>>
    /\ session_state = NoTables
    /\ last_active_drawing = <<>>
    /\ ssp_selector = <<>>
    /\ pc = "run"
    /\ view = [stage |-> "start"]
    /\ NormIdle
    /\ LoadIdle

\* the script without the st.rerun() of the click handler: the run goes on
\* with the new selection under the map that was drawn from the old one
RunScriptNoRerun ==
    /\ pc = "run"
    /\ LET loaded == Fn1([t \in Tables |-> Clean(files[t], NameColOf(t))])
       IN  IF \E t \in Tables : loaded[t].exc # "none"
           THEN /\ view' = [stage |-> "failed", exc |-> "AttributeError"]
                /\ pc' = "idle"
                /\ UNCHANGED <<ssp_files, hist_df, session_state>>
           ELSE LET ss0 == WithDefaults(session_state)
                    selected_ssp == ss0["selected_ssp"]
                    tables == Fn1([s \in SSPSet |->
                                  IF s = selected_ssp THEN AddDemand(loaded[s].df)
                                  ELSE loaded[s].df])
                    hist == loaded["hist"].df
                    map == MapOf(tables[selected_ssp], ss0)
                    ss == IF /\ last_active_drawing # <<>>
                             /\ last_active_drawing[1] # ss0["selected_province"]
                          THEN [ss0 EXCEPT
                                  !["selected_province"] = last_active_drawing[1],
                                  !["selected_province_normalized"] =
                                      normalize_province(last_active_drawing[1])]
                          ELSE ss0
                    selected_ssp_new ==
                        IF ssp_selector = <<>> THEN selected_ssp ELSE ssp_selector[1]
                IN  /\ ssp_files' = tables
                    /\ hist_df' = hist
                    /\ IF selected_ssp_new # selected_ssp
                       THEN /\ session_state' =
                                  [ss EXCEPT !["selected_ssp"] = selected_ssp_new]
                            /\ pc' = "run"
                            /\ view' = [stage |-> "rerun", map |-> map]
                       ELSE /\ session_state' = ss
                            /\ pc' = "idle"
                            /\ view' = Charts(tables, hist, ss, map)
    /\ UNCHANGED <<files, last_active_drawing, ssp_selector, normVars, loadVars>>

\* one execution of the script, from the reading of the files to the last chart
\* or to the st.rerun() or the exception that ends it
RunScript ==
    /\ pc = "run"
    /\ LET loaded == Fn1([t \in Tables |-> Clean(files[t], NameColOf(t))])
       IN  IF \E t \in Tables : loaded[t].exc # "none"
           THEN /\ view' = [stage |-> "failed", exc |-> "AttributeError"]
                /\ pc' = "idle"
                /\ UNCHANGED <<ssp_files, hist_df, session_state>>
           ELSE LET ss == WithDefaults(session_state)
                    selected_ssp == ss["selected_ssp"]
                    tables == Fn1([s \in SSPSet |->
                                  IF s = selected_ssp THEN AddDemand(loaded[s].df)
                                  ELSE loaded[s].df])
                    hist == loaded["hist"].df
                    map == MapOf(tables[selected_ssp], ss)
                    selected_ssp_new ==
                        IF ssp_selector = <<>> THEN selected_ssp ELSE ssp_selector[1]
                IN  /\ ssp_files' = tables
                    /\ hist_df' = hist
                    /\ IF /\ last_active_drawing # <<>>
                          /\ last_active_drawing[1] # ss["selected_province"]
                       THEN \* a new province was clicked: st.rerun()
                            /\ session_state' =
                                  [ss EXCEPT
                                     !["selected_province"] = last_active_drawing[1],
                                     !["selected_province_normalized"] =
                                         normalize_province(last_active_drawing[1])]
                            /\ pc' = "run"
                            /\ view' = [stage |-> "rerun", map |-> map]
                       ELSE IF selected_ssp_new # selected_ssp
                       THEN \* another scenario was picked: st.rerun()
                            /\ session_state' =
                                  [ss EXCEPT !["selected_ssp"] = selected_ssp_new]
                            /\ pc' = "run"
                            /\ view' = [stage |-> "rerun", map |-> map]
                       ELSE /\ session_state' = ss
                            /\ pc' = "idle"
                            /\ view' = Charts(tables, hist, ss, map)
    /\ UNCHANGED <<files, last_active_drawing, ssp_selector, normVars, loadVars>>

\* the user clicks a province of the map
MapClick(g) ==
    /\ view.stage \notin {"start", "failed"}
    /\ last_active_drawing' = <<g>>
    /\ pc' = "run"
    /\ UNCHANGED <<files, ssp_files, hist_df, session_state, ssp_selector, view,
                   normVars, loadVars>>

\* the user picks a scenario with the radio buttons
ScenarioPick(s) ==
    /\ view.stage \notin {"start", "failed"}
    /\ ssp_selector' = <<s>>
    /\ pc' = "run"
    /\ UNCHANGED <<files, ssp_files, hist_df, session_state, last_active_drawing,
                   view, normVars, loadVars>>

Next ==
    \/ RunScript
    \/ \E g \in ShapeNames : MapClick(g)
    \/ \E s \in SSPSet : ScenarioPick(s)

Spec == Init /\ [][Next]_vars

(***************************************************************************)
(* The chart block over more files: the session stands at any selection    *)
(* (a province of the map, a scenario) with both widgets showing it, and   *)
(* the script runs once.                                                   *)
(***************************************************************************)
InitCharts ==
    /\ \E c \in MissingIn \X LowCells \X LowVals :
          files = [t \in Tables |-> FileOf(t, c[1], c[2], c[3])]
    /\ \E g \in ShapeNames, s \in SSPSet :
          /\ session_state = ("selected_province" :> g)
                              @@ ("selected_province_normalized" :> normalize_province(g))
                              @@ ("selected_ssp" :> s)
          /\ last_active_drawing = <<g>>
          /\ ssp_selector = <<s>>
    /\ ssp_files = NoTables
    /\ hist_df = <<>>
    /\ pc = "run"
    /\ view = [stage |-> "start"]
    /\ NormIdle
    /\ LoadIdle

NextCharts == RunScript

SpecCharts == InitCharts /\ [][NextCharts]_vars

(***************************************************************************)
(* The session with its scheduling.  Streamlit executes every script run   *)
(* that is due: the first run, the run an input asks for and the run that  *)
(* st.rerun() asks for.  A run either ends with no run due or has changed  *)
(* the selection and called st.rerun(); it never touches the widgets.  The *)
(* user is under no obligation to click or to pick.                        *)
(***************************************************************************)
\* the values st.session_state can hold once its three keys are set
Selections ==
    [selected_province : ShapeNames,
     selected_province_normalized : { normalize_province(g) : g \in ShapeNames },
     selected_ssp : SSPSet]

\* a due run is executed, as the scheduler sees it
ScriptStep ==
    /\ pc = "run"
    /\ pc' \in {"run", "idle"}
    /\ session_state' \in Selections
    /\ UNCHANGED <<last_active_drawing, ssp_selector>>

SpecLive == Init /\ [][Next]_vars /\ WF_<<pc, session_state>>(ScriptStep)

(***************************************************************************)
(* Properties of the session.                                              *)
(***************************************************************************)
\* the table of file t at the end of loading
LoadedDf(t) == Clean(files[t], NameColOf(t)).df

Ran == view.stage \in {"rerun", "map", "national", "charts"}

HasNational == view.stage \in {"map", "national", "charts"}

\* the selected key has no row in the historical table or in a scenario table
Unresolved ==
    \E t \in Tables :
        Len(loc(LoadedDf(t), session_state["selected_province_normalized"])) = 0

\* C3: when the selected province's key has no row in the historical table
\* or in one of the scenario tables, the run ends with an explicit not-found
\* result for the page and not with a crash of the render.
C3_UnresolvedJoinSurfaced ==
    (pc = "idle" /\ Ran /\ Unresolved) => view.exc = "none"

RECURSIVE Total(_, _)
Total(df, col) == IF df = <<>> THEN 0 ELSE Head(df)[col] + Total(Tail(df), col)

LabelOf(y) == CHOOSE l \in DOMAIN IntOf : IntOf[l] = y

\* C7: for every scenario and every year column of its loaded table,
\* national * 1000 is the sum of the loaded rows' values of that year,
\* whichever scenario is selected ('Demand' is no year of national); the
\* historical national series is the same sums over the historical table.
C7_NationalTotals ==
    HasNational =>
        /\ \A s \in SSPSet :
              /\ DOMAIN view.national[s] = Columns(LoadedDf(s)) \ {"Provinces", "Normalized"}
              /\ \A y \in DOMAIN view.national[s] :
                    view.national[s][y].num * 1000
                        = Total(LoadedDf(s), y) * view.national[s][y].den
        /\ \A y \in DOMAIN view.hist_national :
              view.hist_national[y].num * 1000
                  = Total(LoadedDf("hist"), LabelOf(y)) * view.hist_national[y].den

\* SSP3 is selected and carries 'Demand'; its two loaded rows are summed
C7_Witness ==
    /\ view.stage = "charts"
    /\ view.selected_ssp = "SSP3"
    /\ "Demand" \in Columns(ssp_files["SSP3"])
    /\ Len(ssp_files["SSP3"]) = 2
    /\ view.national["SSP3"]["2050"] = [num |-> 8700, den |-> 1000]

\* a cell of the displayed province table holds a value
Shown(cell) == IF view.y_unit = "TWh" THEN cell.num # NaN ELSE cell # NaN

\* C8: neither the national 'Historical' series nor the province's
\* 'Historical' series has an entry for 2024, and every year they have
\* is >= 2020.
C8_No2024Historical ==
    /\ HasNational =>
          \A y \in DOMAIN view.hist_national : y # 2024 /\ y >= 2020
    /\ view.stage = "charts" =>
          \A y \in DOMAIN view.prov_df_display["Historical"] :
              Shown(view.prov_df_display["Historical"][y]) => (y # 2024 /\ y >= 2020)

\* the historical table has the columns 2019 and 2024 and neither is shown
C8_Witness ==
    /\ view.stage = "charts"
    /\ {"2019", "2024"} \subseteq Columns(hist_df)
    /\ DOMAIN view.hist_national = {2020, 2023}
    /\ { y \in DOMAIN view.prov_df_display["Historical"] :
            Shown(view.prov_df_display["Historical"][y]) } = {2020, 2023}

\* the values the province table is to show: the province's historical
\* values of 2020-2023 and its values of 2025-2050 in SSP1 .. SSP5
ProvinceValues ==
    LET key == session_state["selected_province_normalized"]
    IN  { loc(LoadedDf("hist"), key)[1][l] :
            l \in { k \in YearCols("hist") : IntOf[k] \in 2020..2023 } }
        \cup UNION { { loc(LoadedDf(s), key)[1][l] :
                         l \in { k \in YearCols(s) : IntOf[k] \in 2025..2050 } } :
                     s \in SSPSet }

LeastOf(S) == CHOOSE v \in S : \A w \in S : v <= w

\* C9: the province table is divided by 1000 and labelled 'TWh' exactly
\* when the least of its present values is > 1000; otherwise (a least value
\* of exactly 1000 included) it is shown unchanged and labelled 'GWh'; one
\* unit for all series, the same whichever scenario is selected.
C9_UnitSelection ==
    view.stage = "charts" =>
        /\ Present(view.prov_df) = ProvinceValues
        /\ view.y_unit = IF LeastOf(ProvinceValues) > 1000 THEN "TWh" ELSE "GWh"
        /\ view.y_unit = "TWh" =>
              \A c \in DOMAIN view.prov_df : \A y \in DOMAIN view.prov_df[c] :
                  view.prov_df_display[c][y]
                      = IF view.prov_df[c][y] = NaN THEN [num |-> NaN, den |-> 1]
                        ELSE [num |-> view.prov_df[c][y], den |-> 1000]
        /\ view.y_unit = "GWh" => view.prov_df_display = view.prov_df

\* the least value is exactly 1000 and the table is shown in GWh
C9_Witness ==
    /\ view.stage = "charts"
    /\ LeastOf(ProvinceValues) = 1000
    /\ view.y_unit = "GWh"
    /\ view.selected_ssp = "SSP2"

\* the rows of df cut to the columns cols
Project(df, cols) == [i \in 1..Len(df) |-> [col \in cols |-> df[i][col]]]

Started == DOMAIN session_state # {}

ankara == <<"a", "n", "k", "a", "r", "a">>

\* the map widget holds a click on a province other than the selected one
ClickDiffers ==
    /\ last_active_drawing # <<>>
    /\ last_active_drawing[1] # session_state["selected_province"]

\* the radio widget holds a scenario other than the selected one
PickDiffers ==
    /\ ssp_selector # <<>>
    /\ ssp_selector[1] # session_state["selected_ssp"]

\* a step of the script, as against a step of the user
RunStep == pc = "run" /\ last_active_drawing' = last_active_drawing
                      /\ ssp_selector' = ssp_selector
                      /\ (session_state' # session_state \/ pc' = "idle")

\* the selection after the click handler
Clicked ==
    [session_state EXCEPT
        !["selected_province"] = last_active_drawing[1],
        !["selected_province_normalized"] = normalize_province(last_active_drawing[1])]

\* the selection after the scenario handler
Picked == [session_state EXCEPT !["selected_ssp"] = ssp_selector[1]]

\* C11: the selection is created by the first run as province 'Ankara', key
\* 'ankara', scenario 'SSP1'.  From then on a step changes it only in a run
\* of the script and only in one of two ways: the map widget holds a province
\* other than the selected one, and the selected province and its key become
\* that province and its normalised name, the scenario staying; or (no such
\* click being held) the radio holds a scenario other than the selected one,
\* and the selected scenario becomes it, province and key staying.  With the
\* clicked province and the picked scenario equal to the selected ones no
\* step changes the selection, and a run that goes on to the charts leaves
\* it as it was.
C11_SelectionFrame ==
    [][ /\ ~Started =>
            \/ session_state' = session_state
            \/ /\ pc = "run"
               /\ session_state' = [selected_province |-> Ankara,
                                    selected_province_normalized |-> ankara,
                                    selected_ssp |-> "SSP1"]
        /\ Started =>
            /\ session_state' # session_state => RunStep
            /\ (RunStep /\ ClickDiffers) => session_state' = Clicked
            /\ (RunStep /\ ~ClickDiffers /\ PickDiffers) => session_state' = Picked
            /\ (~ClickDiffers /\ ~PickDiffers) => session_state' = session_state
            /\ (RunStep /\ view'.stage \in {"map", "national", "charts"}) =>
                   session_state' = session_state
      ]_vars

\* a click on İzmir and a pick of SSP4 have both been handled, starting from
\* Ankara and SSP1, and the run after them has drawn the charts
C11_Witness ==
    /\ pc = "idle"
    /\ Started
    /\ session_state["selected_province"] = IzmirDotted
    /\ session_state["selected_province_normalized"] = izmir
    /\ session_state["selected_ssp"] = "SSP4"
    /\ view.stage = "charts"

(***************************************************************************)
(* Properties of the order of runs and inputs.                             *)
(***************************************************************************)
\* the handlers that have yet to fire: a held click on another province, a
\* held pick of another scenario
Pending ==
    (IF ClickDiffers THEN 1 ELSE 0) + (IF PickDiffers THEN 1 ELSE 0)

\* a step of the user: a click on the map or a pick with the radio
UserInput ==
    \/ \E g \in ShapeNames : MapClick(g)
    \/ \E s \in SSPSet : ScenarioPick(s)

\* what is on the page was drawn from the selection as it is now
ChartsCurrent ==
    /\ view.stage \in {"map", "national", "charts"} =>
          /\ view.selected_ssp = session_state["selected_ssp"]
          /\ view.map.highlighted
                 = {session_state["selected_province"]} \cap ShapeNames
    /\ view.stage = "charts" =>
          /\ view.title = session_state["selected_province"]
          /\ view.prov_df = ProvDf(ssp_files, hist_df,
                                   session_state["selected_province_normalized"])

\* C12: a run in which a handler changes the selection ends there: it draws
\* no chart, leaves another run due, and leaves fewer handlers to fire than
\* it found (so at most two such runs follow one another); whatever charts
\* are on the page were drawn from the selected province, its key and the
\* selected scenario as they are now; and once the user stops clicking and
\* picking, the runs that are due come to a run that ends without changing
\* the selection and leaves no run due.
C12_RerunOrdering ==
    /\ [][ (Started /\ session_state' # session_state) =>
               /\ pc' = "run"
               /\ view'.stage = "rerun"
               /\ Pending' < Pending
         ]_vars
    /\ []ChartsCurrent
    /\ ([]<><<UserInput>>_vars \/ []<>(pc = "idle"))

\* a click on another province has just ended a run by st.rerun(), and a
\* pick of another scenario is held by the radio: the run that is due will
\* end by st.rerun() too
C12_Witness ==
    /\ Started
    /\ pc = "run"
    /\ view.stage = "rerun"
    /\ last_active_drawing = <<session_state["selected_province"]>>
    /\ session_state["selected_province"] # Ankara
    /\ PickDiffers

(***************************************************************************)
(* Consistency of the selection.                                           *)
(***************************************************************************)
\* C13: in every state of a session after its first run, whatever clicks
\* and picks led to it, st.session_state holds exactly the three keys,
\* selected_province_normalized is normalize_province(selected_province) and
\* selected_ssp is one of SSP1 .. SSP5; and the province chart on the page
\* shows the rows found under the normalised name of the province of its
\* title, which is the province the map highlights.
C13_SelectionConsistent ==
    Started =>
        /\ DOMAIN session_state
               = {"selected_province", "selected_province_normalized", "selected_ssp"}
        /\ session_state["selected_province_normalized"]
               = normalize_province(session_state["selected_province"])
        /\ session_state["selected_ssp"] \in SSPSet
        /\ view.stage = "charts" =>
              /\ view.prov_df
                     = ProvDf(ssp_files, hist_df, normalize_province(view.title))
              /\ view.map.highlighted = {view.title}

\* İzmir was clicked on the map under scenario SSP2: the key differs from
\* the shapeName, and the chart of İzmir is on the page
C13_Witness ==
    /\ Started
    /\ last_active_drawing = <<IzmirDotted>>
    /\ ssp_selector = <<"SSP2">>
    /\ session_state["selected_province_normalized"] # session_state["selected_province"]
    /\ view.stage = "charts"
    /\ view.title = IzmirDotted
    /\ view.selected_ssp = "SSP2"

=============================================================================
